---- MODULE Spec2Model ----
(***************************************************************************)
(* The voice relay of torresmateo/voice-agent: the WebSocket handler       *)
(* (open / message / close / error) that bridges a client audio socket,    *)
(* the OpenAI Realtime client and the Arcade tool handler, as laid out in  *)
(* the implementation plan (src/apps/web/src/components/ui/label.tsx,      *)
(* lines 136-208) and the types of src/unnamed/part_000.                   *)
(*                                                                         *)
(* open() is an async function: it suspends at the auth check, at the      *)
(* database insert and at the upstream connect, and other hooks of the     *)
(* same socket run in between.  close()/error() suspend at the database    *)
(* update.  Each action below is one run-to-suspension slice of a hook.    *)
(***************************************************************************)
EXTENDS Naturals, Sequences, FiniteSets

\* ------------------------------------------------------------------ bounds
MaxAudio == 2
MaxCalls == 2
\* Messages per direction in the behaviours checked for liveness.
LiveAudio == 1
\* Messages and tool calls, all connections together, in the behaviours checked
\* with several connections.
MultiTraffic == 1

\* The connection ids of the process, and the ones the server has accepted.
Conns == {"ws1", "ws2"}
Accepted == {"ws1"}
CallIds == 1..MaxCalls

Null == "null"
Creds == {"valid", "invalid"}
RegisteredTools == {"weather"}
ToolNames == RegisteredTools \cup {"bogus"}
Outcomes == {"result", "error"}
\* Client control messages: the recognized kinds, and what a client may send.
ControlKinds == {"stop"}
MessageKinds == ControlKinds \cup {"bogus", "malformed"}
Terminal == {"Closed", "Failed"}
Phases == {"Connecting", "Authenticating", "Bridging", "Closing", "Closed", "Failed"}

VARIABLES
  limit,        \* how many messages each side sends per direction (never changes)
  budget,       \* how many messages and calls there are in all (never changes)
  admitted,     \* the connections whose transport handshake was accepted
  cred,         \* the credential (session cookie) of each handshake
  phase,        \* lifecycle phase of the orchestrator
  openPc,       \* where open(ws) is: start, verify, create, connect, done, aborted
  wsOpen,       \* the client socket is open
  closeSignal,  \* how the client socket was closed: none, client, auth-failure, error
  clientOut,    \* what was sent to the client, in order
  session,      \* the VoiceSession row: none, active, ended
  endedCount,   \* how often the row went from active to ended
  upstream,     \* the OpenAIRealtimeClient: none, connecting, connected, disconnected
  connections,  \* the connections Map (its key set)
  removals,     \* how often an entry was deleted from the Map
  cleaning,     \* cleanup runs suspended at endSession
  hooks,        \* terminal hooks that have run: close, error, upstream
  clientSent,   \* binary frames the client sent while the phase was Bridging
  nSent,        \* messages the client sent at all
  upControl,    \* control events forwarded to the upstream channel
  upAudio,      \* audio frames forwarded to the upstream channel, in order
  upArrived,    \* audio-delta events that arrived from upstream, in order
  reqTool,      \* callId -> toolName of the request taken up ("null": none yet)
  reqPhase,     \* callId -> phase in which the request was taken up
  running,      \* callIds whose executeTool is outstanding
  executed,     \* callIds for which executeTool was invoked
  completed,    \* callIds in the order their executeTool completed
  orphaned,     \* callIds that were outstanding when a terminal hook ran
  upResp        \* tool-call responses sent upstream, in order

connVars == <<limit, budget, admitted, cred, phase, openPc, wsOpen, closeSignal, clientOut>>
storeVars == <<session, endedCount, upstream, connections, removals, cleaning, hooks>>
audioVars == <<clientSent, nSent, upControl, upAudio, upArrived>>
toolVars == <<reqTool, reqPhase, running, executed, completed, orphaned, upResp>>
vars == <<connVars, storeVars, audioVars, toolVars>>

InitState ==
  /\ cred \in {f \in [Conns -> Creds] : \A c \in Conns \ admitted : f[c] = "invalid"}
  /\ phase = [c \in Conns |-> "Connecting"]
  /\ openPc = [c \in Conns |-> "start"]
  /\ wsOpen = [c \in Conns |-> TRUE]
  /\ closeSignal = [c \in Conns |-> "none"]
  /\ clientOut = [c \in Conns |-> <<>>]
  /\ session = [c \in Conns |-> "none"]
  /\ endedCount = [c \in Conns |-> 0]
  /\ upstream = [c \in Conns |-> "none"]
  /\ connections = {}
  /\ removals = [c \in Conns |-> 0]
  /\ cleaning = [c \in Conns |-> 0]
  /\ hooks = [c \in Conns |-> {}]
  /\ clientSent = [c \in Conns |-> <<>>]
  /\ nSent = [c \in Conns |-> 0]
  /\ upControl = [c \in Conns |-> <<>>]
  /\ upAudio = [c \in Conns |-> <<>>]
  /\ upArrived = [c \in Conns |-> <<>>]
  /\ reqTool = [c \in Conns |-> [i \in CallIds |-> Null]]
  /\ reqPhase = [c \in Conns |-> [i \in CallIds |-> Null]]
  /\ running = [c \in Conns |-> {}]
  /\ executed = [c \in Conns |-> {}]
  /\ completed = [c \in Conns |-> <<>>]
  /\ orphaned = [c \in Conns |-> {}]
  /\ upResp = [c \in Conns |-> <<>>]

Init ==
  /\ limit = MaxAudio
  /\ budget = Cardinality(Conns) * (2 * MaxAudio + MaxCalls)
  /\ admitted = Accepted
  /\ InitState

\* ----------------------------------------------------------------- helpers

\* The messages and calls so far: client messages, audio deltas, tool-call requests.
TrafficOf(c) ==
  nSent[c] + Len(upArrived[c]) + Cardinality({id \in CallIds : reqTool[c][id] # Null})

RECURSIVE Total(_)
Total(S) ==
  IF S = {} THEN 0
  ELSE LET c == CHOOSE x \in S : TRUE IN TrafficOf(c) + Total(S \ {c})

Traffic ==
  Total(Conns)

\* A phase change as it would be with a plain assignment.
Transition_overwrite(c, target) ==
  [phase EXCEPT ![c] = target]

\* A phase change: a terminal phase is never left.
Transition(c, target) ==
  [phase EXCEPT ![c] = IF @ \in Terminal THEN @ ELSE target]

\* ws.send as it would be if a closed socket still delivered.
ClientSend_afterClose(c, m) ==
  [clientOut EXCEPT ![c] = Append(@, m)]

\* ws.send: a payload written to a socket that is closed goes nowhere.
ClientSend(c, m) ==
  IF wsOpen[c] THEN [clientOut EXCEPT ![c] = Append(@, m)] ELSE clientOut

\* The server closes the client socket with a signal.
ServerClose(c, signal) ==
  [closeSignal EXCEPT ![c] = IF wsOpen[c] THEN signal ELSE @]

\* sendAudio(buffer): the frame goes upstream as it is, one frame per call.
sendAudio(c, frame) ==
  IF upstream[c] = "connected" THEN [upAudio EXCEPT ![c] = Append(@, frame)] ELSE upAudio

\* A tool-call response goes upstream unless the channel is closed.  It carries a
\* callId, a result or error payload, and (for the record) the request the payload
\* was computed for.
sendToolResponse(c, id, outcome, from) ==
  IF upstream[c] = "connected"
  THEN [upResp EXCEPT ![c] = Append(@, <<id, outcome, from>>)]
  ELSE upResp

\* endSession(sessionToken): marks the row ended; a row already ended stays ended
\* (the Session Store's end is idempotent).
endSession(c) ==
  [session EXCEPT ![c] = IF @ = "active" THEN "ended" ELSE @]

endSessionCount(c) ==
  [endedCount EXCEPT ![c] = IF session[c] = "active" THEN @ + 1 ELSE @]

\* disconnect(): idempotent, safe when never connected.
disconnect(c) ==
  [upstream EXCEPT ![c] = IF @ = "none" THEN @ ELSE "disconnected"]

\* The client has received { type: "ready" }: the voice UI enables recording, and
\* with it the sending of audio, on ready.
ClientReady(c) ==
  \E i \in DOMAIN clientOut[c] : clientOut[c][i] = <<"ready">>

\* A verifier that takes any cookie for a session.
verify_acceptAll(credential) ==
  "principal"

\* VoiceAuthVerifier: { userId, sessionToken } for a valid cookie, null otherwise.
verify(credential) ==
  IF credential = "valid" THEN "principal" ELSE Null

\* No validation: every tool name is passed on to the gateway.
ValidTool_any(tool) ==
  TRUE

\* Is the tool in the Tool Gateway's registered tool set?
ValidTool(tool) ==
  tool \in RegisteredTools

\* Cleanup as it would be without step 1: the OpenAI client stays connected.
CleanupBegin_noDisconnect(c) ==
  /\ orphaned' = [orphaned EXCEPT ![c] = @ \cup running[c]]
  /\ IF c \in connections
     THEN /\ UNCHANGED upstream
          /\ cleaning' = [cleaning EXCEPT ![c] = @ + 1]
          /\ phase' = Transition(c, "Closing")
     ELSE /\ UNCHANGED <<upstream, cleaning>>
          /\ phase' = Transition(c, IF phase[c] \in {"Connecting", "Authenticating"}
                                    THEN "Failed" ELSE phase[c])

\* The start of a cleanup run (close, error): the connection state is looked up in
\* the Map; with it the OpenAI client is disconnected and endSession is issued.
\* Without an entry there is no client handle and no sessionToken to act on.
CleanupBegin(c) ==
  /\ orphaned' = [orphaned EXCEPT ![c] = @ \cup running[c]]
  /\ IF c \in connections
     THEN /\ upstream' = disconnect(c)
          /\ cleaning' = [cleaning EXCEPT ![c] = @ + 1]
          /\ phase' = Transition(c, "Closing")
     ELSE /\ UNCHANGED <<upstream, cleaning>>
          /\ phase' = Transition(c, IF phase[c] \in {"Connecting", "Authenticating"}
                                    THEN "Failed" ELSE phase[c])

\* ------------------------------------------------------------------ open(ws)

\* open(ws), step 1: the auth verifier is called with the cookie of the handshake.
open(c) ==
  /\ c \in admitted
  /\ openPc[c] = "start"
  /\ openPc' = [openPc EXCEPT ![c] = "verify"]
  /\ phase' = Transition(c, "Authenticating")
  /\ UNCHANGED <<limit, budget, admitted, cred, wsOpen, closeSignal, clientOut, storeVars, audioVars, toolVars>>

\* open() as it would be with the ready message sent as soon as the cookie is
\* verified, before the session row exists.
openVerified_readyEarly(c) ==
  /\ openPc[c] = "verify"
  /\ IF verify(cred[c]) = Null
     THEN /\ openPc' = [openPc EXCEPT ![c] = "aborted"]
          /\ phase' = Transition(c, "Failed")
          /\ closeSignal' = ServerClose(c, "auth-failure")
          /\ wsOpen' = [wsOpen EXCEPT ![c] = FALSE]
          /\ UNCHANGED clientOut
     ELSE /\ openPc' = [openPc EXCEPT ![c] = "create"]
          /\ clientOut' = ClientSend(c, <<"ready">>)
          /\ UNCHANGED <<phase, closeSignal, wsOpen>>
  /\ UNCHANGED <<limit, budget, admitted, cred, storeVars, audioVars, toolVars>>

\* The verifier has answered.  null: the socket is closed with an authentication
\* failure and nothing is created.  Otherwise step 2, createSession, is issued.
openVerified(c) ==
  /\ openPc[c] = "verify"
  /\ IF verify(cred[c]) = Null
     THEN /\ openPc' = [openPc EXCEPT ![c] = "aborted"]
          /\ phase' = Transition(c, "Failed")
          /\ closeSignal' = ServerClose(c, "auth-failure")
          /\ wsOpen' = [wsOpen EXCEPT ![c] = FALSE]
     ELSE /\ openPc' = [openPc EXCEPT ![c] = "create"]
          /\ UNCHANGED <<phase, closeSignal, wsOpen>>
  /\ UNCHANGED <<limit, budget, admitted, cred, clientOut, storeVars, audioVars, toolVars>>

\* Step 2 has created the voice session row; step 3 builds the ArcadeToolHandler
\* and the OpenAIRealtimeClient; step 4, connect(), is issued.
openSessionCreated(c) ==
  /\ openPc[c] = "create"
  /\ openPc' = [openPc EXCEPT ![c] = "connect"]
  /\ session' = [session EXCEPT ![c] = "active"]
  /\ upstream' = [upstream EXCEPT ![c] = "connecting"]
  /\ UNCHANGED <<limit, budget, admitted, cred, phase, wsOpen, closeSignal, clientOut, endedCount, connections,
                 removals, cleaning, hooks, audioVars, toolVars>>

\* connect() has succeeded.  Steps 5 to 8 run without suspending: the forwarding
\* and tool-call callbacks are registered, the connection state is stored in the
\* Map, and { type: "ready" } is sent.
openConnected(c) ==
  /\ openPc[c] = "connect"
  /\ openPc' = [openPc EXCEPT ![c] = "done"]
  /\ upstream' = [upstream EXCEPT ![c] = "connected"]
  /\ connections' = connections \cup {c}
  /\ clientOut' = ClientSend(c, <<"ready">>)
  /\ phase' = Transition(c, "Bridging")
  /\ UNCHANGED <<limit, budget, admitted, cred, wsOpen, closeSignal, session, endedCount, removals, cleaning,
                 hooks, audioVars, toolVars>>

\* A connect failure as it would be with the socket closed and nothing said.
openConnectFailed_silent(c) ==
  /\ openPc[c] = "connect"
  /\ openPc' = [openPc EXCEPT ![c] = "aborted"]
  /\ upstream' = disconnect(c)
  /\ closeSignal' = ServerClose(c, "error")
  /\ wsOpen' = [wsOpen EXCEPT ![c] = FALSE]
  /\ session' = endSession(c)
  /\ endedCount' = endSessionCount(c)
  /\ phase' = Transition(c, "Failed")
  /\ UNCHANGED <<limit, budget, admitted, cred, clientOut, connections, removals, cleaning, hooks,
                 audioVars, toolVars>>

\* connect() has failed or timed out: fatal for the connection.  The client gets a
\* structured error event, the session is ended, the socket is closed.
openConnectFailed(c) ==
  /\ openPc[c] = "connect"
  /\ openPc' = [openPc EXCEPT ![c] = "aborted"]
  /\ upstream' = disconnect(c)
  /\ clientOut' = ClientSend(c, <<"error", "upstream-connect">>)
  /\ closeSignal' = ServerClose(c, "error")
  /\ wsOpen' = [wsOpen EXCEPT ![c] = FALSE]
  /\ session' = endSession(c)
  /\ endedCount' = endSessionCount(c)
  /\ phase' = Transition(c, "Failed")
  /\ UNCHANGED <<limit, budget, admitted, cred, connections, removals, cleaning, hooks, audioVars, toolVars>>

\* ------------------------------------------------------- message(ws, msg)

\* message() as it would be with a batching window of two frames.
messageBinary_batched(c) ==
  /\ wsOpen[c]
  /\ ClientReady(c)
  /\ nSent[c] < limit
  /\ Traffic < budget
  /\ nSent' = [nSent EXCEPT ![c] = @ + 1]
  /\ clientSent' = [clientSent EXCEPT ![c] =
                      IF phase[c] = "Bridging" THEN Append(@, nSent[c] + 1) ELSE @]
  /\ upAudio' = IF c \in connections /\ upstream[c] = "connected" /\ nSent[c] % 2 = 1
                THEN [upAudio EXCEPT ![c] = @ \o <<nSent[c], nSent[c] + 1>>]
                ELSE upAudio
  /\ UNCHANGED <<connVars, storeVars, upControl, upArrived, toolVars>>

\* message() as it would be if a frame were taken up only once no tool call is
\* outstanding.
messageBinary_waitsForTool(c) ==
  /\ wsOpen[c]
  /\ ClientReady(c)
  /\ running[c] = {}
  /\ nSent[c] < limit
  /\ Traffic < budget
  /\ nSent' = [nSent EXCEPT ![c] = @ + 1]
  /\ clientSent' = [clientSent EXCEPT ![c] =
                      IF phase[c] = "Bridging" THEN Append(@, nSent[c] + 1) ELSE @]
  /\ upAudio' = IF c \in connections THEN sendAudio(c, nSent[c] + 1) ELSE upAudio
  /\ UNCHANGED <<connVars, storeVars, upControl, upArrived, toolVars>>

\* A binary message: the connection state is looked up and the buffer is
\* forwarded to OpenAI as audio.  Frames carry their sequence number.
messageBinary(c) ==
  /\ wsOpen[c]
  /\ ClientReady(c)
  /\ nSent[c] < limit
  /\ Traffic < budget
  /\ nSent' = [nSent EXCEPT ![c] = @ + 1]
  /\ clientSent' = [clientSent EXCEPT ![c] =
                      IF phase[c] = "Bridging" THEN Append(@, nSent[c] + 1) ELSE @]
  /\ upAudio' = IF c \in connections THEN sendAudio(c, nSent[c] + 1) ELSE upAudio
  /\ UNCHANGED <<connVars, storeVars, upControl, upArrived, toolVars>>

\* A control event goes upstream unless the channel is closed.
sendControl(c, kind) ==
  IF upstream[c] = "connected" THEN [upControl EXCEPT ![c] = Append(@, kind)] ELSE upControl

\* message() as it would be if a message it cannot handle were fatal: the
\* connection is cleaned up as on an error.
messageJson_fatal(c, kind) ==
  /\ wsOpen[c]
  /\ ClientReady(c)
  /\ nSent[c] < limit
  /\ Traffic < budget
  /\ nSent' = [nSent EXCEPT ![c] = @ + 1]
  /\ IF c \notin connections
     THEN UNCHANGED <<clientOut, upControl, phase, upstream, cleaning, orphaned>>
     ELSE IF kind \in ControlKinds
     THEN /\ upControl' = sendControl(c, kind)
          /\ UNCHANGED <<clientOut, phase, upstream, cleaning, orphaned>>
     ELSE /\ clientOut' = ClientSend(c, <<"error", "bad-message">>)
          /\ CleanupBegin(c)
          /\ UNCHANGED upControl
  /\ UNCHANGED <<limit, budget, admitted, cred, openPc, wsOpen, closeSignal, session, endedCount,
                 connections, removals, hooks, clientSent, upAudio, upArrived,
                 reqTool, reqPhase, running, executed, completed, upResp>>

\* message() as it would be if a frame were answered without looking the
\* connection up in the Map.
messageJson_noLookup(c, kind) ==
  /\ wsOpen[c]
  /\ ClientReady(c)
  /\ nSent[c] < limit
  /\ Traffic < budget
  /\ nSent' = [nSent EXCEPT ![c] = @ + 1]
  /\ IF kind \in ControlKinds
     THEN /\ upControl' = sendControl(c, kind)
          /\ UNCHANGED clientOut
     ELSE /\ clientOut' = ClientSend(c, <<"error", "bad-message">>)
          /\ UNCHANGED upControl
  /\ UNCHANGED <<limit, budget, admitted, cred, phase, openPc, wsOpen, closeSignal, storeVars,
                 clientSent, upAudio, upArrived, toolVars>>

\* A JSON message: a control message.  A recognized kind (stop) is forwarded as an
\* upstream control event; an unrecognized kind and a malformed message are
\* answered with a structured error event and change nothing else.
messageJson(c, kind) ==
  /\ wsOpen[c]
  /\ ClientReady(c)
  /\ nSent[c] < limit
  /\ Traffic < budget
  /\ nSent' = [nSent EXCEPT ![c] = @ + 1]
  /\ IF c \notin connections
     THEN UNCHANGED <<clientOut, upControl>>
     ELSE IF kind \in ControlKinds
     THEN /\ upControl' = sendControl(c, kind)
          /\ UNCHANGED clientOut
     ELSE /\ clientOut' = ClientSend(c, <<"error", "bad-message">>)
          /\ UNCHANGED upControl
  /\ UNCHANGED <<limit, budget, admitted, cred, phase, openPc, wsOpen, closeSignal, storeVars,
                 clientSent, upAudio, upArrived, toolVars>>

\* ------------------------------------------------- upstream event callbacks

\* onAudioDelta as it would be if forwarding waited for an outstanding tool call.
onAudioDelta_blockedByTool(c) ==
  /\ upstream[c] = "connected"
  /\ openPc[c] = "done"
  /\ Len(upArrived[c]) < limit
  /\ Traffic < budget
  /\ upArrived' = [upArrived EXCEPT ![c] = Append(@, Len(@) + 1)]
  /\ clientOut' = IF running[c] = {} THEN ClientSend(c, <<"audio", Len(upArrived[c]) + 1>>)
                  ELSE clientOut
  /\ UNCHANGED <<limit, budget, admitted, cred, phase, openPc, wsOpen, closeSignal, storeVars,
                 clientSent, nSent, upControl, upAudio, toolVars>>

\* onAudioDelta: an audio chunk from OpenAI is sent to the client socket as binary.
onAudioDelta(c) ==
  /\ upstream[c] = "connected"
  /\ openPc[c] = "done"
  /\ Len(upArrived[c]) < limit
  /\ Traffic < budget
  /\ upArrived' = [upArrived EXCEPT ![c] = Append(@, Len(@) + 1)]
  /\ clientOut' = ClientSend(c, <<"audio", Len(upArrived[c]) + 1>>)
  /\ UNCHANGED <<limit, budget, admitted, cred, phase, openPc, wsOpen, closeSignal, storeVars,
                 clientSent, nSent, upControl, upAudio, toolVars>>

\* onToolCall: a function call from OpenAI.  A tool outside the registered set is
\* answered with an error at once; otherwise executeTool is invoked via Arcade.
onToolCall(c, id, tool) ==
  /\ upstream[c] = "connected"
  /\ openPc[c] = "done"
  /\ reqTool[c][id] = Null
  /\ \A j \in CallIds : j < id => reqTool[c][j] # Null
  /\ Traffic < budget
  /\ reqTool' = [reqTool EXCEPT ![c][id] = tool]
  /\ reqPhase' = [reqPhase EXCEPT ![c][id] = phase[c]]
  /\ IF ValidTool(tool)
     THEN /\ running' = [running EXCEPT ![c] = @ \cup {id}]
          /\ executed' = [executed EXCEPT ![c] = @ \cup {id}]
          /\ UNCHANGED upResp
     ELSE /\ upResp' = sendToolResponse(c, id, "error", id)
          /\ UNCHANGED <<running, executed>>
  /\ UNCHANGED <<connVars, storeVars, audioVars, completed, orphaned>>

\* Tool completion as it would be if responses were matched to requests first in,
\* first out: the response carries the callId of the oldest outstanding request.
toolComplete_fifoTag(c, id, outcome) ==
  /\ id \in running[c]
  /\ running' = [running EXCEPT ![c] = @ \ {id}]
  /\ completed' = [completed EXCEPT ![c] = Append(@, id)]
  /\ upResp' = sendToolResponse(c, CHOOSE j \in running[c] : \A k \in running[c] : j <= k,
                                outcome, id)
  /\ UNCHANGED <<connVars, storeVars, audioVars, reqTool, reqPhase, executed, orphaned>>

\* Tool completion as it would be with a failed execution dropped silently.
toolComplete_dropFailure(c, id, outcome) ==
  /\ id \in running[c]
  /\ running' = [running EXCEPT ![c] = @ \ {id}]
  /\ completed' = [completed EXCEPT ![c] = Append(@, id)]
  /\ upResp' = IF outcome = "error" THEN upResp
               ELSE sendToolResponse(c, id, outcome, id)
  /\ UNCHANGED <<connVars, storeVars, audioVars, reqTool, reqPhase, executed, orphaned>>

\* Tool completion as it would be with a failed execution treated as a failure of
\* the connection: no response, the close path is taken.
toolComplete_failureFatal(c, id, outcome) ==
  /\ id \in running[c]
  /\ running' = [running EXCEPT ![c] = @ \ {id}]
  /\ completed' = [completed EXCEPT ![c] = Append(@, id)]
  /\ IF outcome = "error"
     THEN /\ CleanupBegin(c)
          /\ UNCHANGED upResp
     ELSE /\ upResp' = sendToolResponse(c, id, outcome, id)
          /\ UNCHANGED <<phase, upstream, cleaning, orphaned>>
  /\ UNCHANGED <<limit, budget, admitted, cred, openPc, wsOpen, closeSignal, clientOut, session,
                 endedCount, connections, removals, hooks, audioVars, reqTool, reqPhase,
                 executed>>

\* executeTool has completed, with a result or with a failure: the response with
\* the callId of the request is sent back to OpenAI.
toolComplete(c, id, outcome) ==
  /\ id \in running[c]
  /\ running' = [running EXCEPT ![c] = @ \ {id}]
  /\ completed' = [completed EXCEPT ![c] = Append(@, id)]
  /\ upResp' = sendToolResponse(c, id, outcome, id)
  /\ UNCHANGED <<connVars, storeVars, audioVars, reqTool, reqPhase, executed, orphaned>>

\* ------------------------------------------------ close(ws), error(ws, err)

\* close(ws): the client socket has closed; cleanup starts.
close(c) ==
  /\ wsOpen[c]
  /\ openPc[c] # "start"
  /\ wsOpen' = [wsOpen EXCEPT ![c] = FALSE]
  /\ closeSignal' = [closeSignal EXCEPT ![c] = "client"]
  /\ hooks' = [hooks EXCEPT ![c] = @ \cup {"close"}]
  /\ CleanupBegin(c)
  /\ UNCHANGED <<limit, budget, admitted, cred, openPc, clientOut, session, endedCount, connections,
                 removals, audioVars,
                 reqTool, reqPhase, running, executed, completed, upResp>>

\* error(ws, err): log the error, clean the connection up.  The hook runs for an
\* error on a bridged socket, also while a close is still suspended; a failure
\* inside open() is openVerified's or openConnectFailed's.
error(c) ==
  /\ "error" \notin hooks[c]
  /\ phase[c] \in {"Bridging", "Closing"}
  /\ hooks' = [hooks EXCEPT ![c] = @ \cup {"error"}]
  /\ CleanupBegin(c)
  /\ UNCHANGED <<limit, budget, admitted, cred, openPc, wsOpen, closeSignal, clientOut, session, endedCount,
                 connections, removals, audioVars,
                 reqTool, reqPhase, running, executed, completed, upResp>>

\* An upstream disconnect as it would be if it were only noted: the channel is
\* gone, the connection goes on as it is.
upstreamDisconnect_stayBridged(c) ==
  /\ upstream[c] = "connected"
  /\ openPc[c] = "done"
  /\ hooks' = [hooks EXCEPT ![c] = @ \cup {"upstream"}]
  /\ upstream' = disconnect(c)
  /\ UNCHANGED <<connVars, session, endedCount, connections, removals, cleaning, audioVars,
                 toolVars>>

\* The upstream channel has closed unexpectedly: fatal, the close path is taken.
upstreamDisconnect(c) ==
  /\ upstream[c] = "connected"
  /\ openPc[c] = "done"
  /\ hooks' = [hooks EXCEPT ![c] = @ \cup {"upstream"}]
  /\ CleanupBegin(c)
  /\ UNCHANGED <<limit, budget, admitted, cred, openPc, wsOpen, closeSignal, clientOut, session, endedCount,
                 connections, removals, audioVars,
                 reqTool, reqPhase, running, executed, completed, upResp>>

\* Cleanup as it would be if it waited for the outstanding tool calls before it
\* ended the session.
cleanupFinish_awaitsTools(c) ==
  /\ cleaning[c] > 0
  /\ running[c] = {}
  /\ cleaning' = [cleaning EXCEPT ![c] = @ - 1]
  /\ session' = endSession(c)
  /\ endedCount' = endSessionCount(c)
  /\ connections' = connections \ {c}
  /\ removals' = [removals EXCEPT ![c] = IF c \in connections THEN @ + 1 ELSE @]
  /\ phase' = Transition(c, "Closed")
  /\ UNCHANGED <<limit, budget, admitted, cred, openPc, wsOpen, closeSignal, clientOut, upstream,
                 hooks, audioVars, toolVars>>

\* Cleanup as it would be without step 3: the Map entry is left behind.
cleanupFinish_keepEntry(c) ==
  /\ cleaning[c] > 0
  /\ cleaning' = [cleaning EXCEPT ![c] = @ - 1]
  /\ session' = endSession(c)
  /\ endedCount' = endSessionCount(c)
  /\ phase' = Transition(c, "Closed")
  /\ UNCHANGED <<limit, budget, admitted, cred, openPc, wsOpen, closeSignal, clientOut, upstream, hooks,
                 connections, removals, audioVars, toolVars>>

\* A cleanup run resumes after endSession: the row is ended (close step 2) and the
\* entry is removed from the connections Map (close step 3).
cleanupFinish(c) ==
  /\ cleaning[c] > 0
  /\ cleaning' = [cleaning EXCEPT ![c] = @ - 1]
  /\ session' = endSession(c)
  /\ endedCount' = endSessionCount(c)
  /\ connections' = connections \ {c}
  /\ removals' = [removals EXCEPT ![c] = IF c \in connections THEN @ + 1 ELSE @]
  /\ phase' = Transition(c, "Closed")
  /\ UNCHANGED <<limit, budget, admitted, cred, openPc, wsOpen, closeSignal, clientOut, upstream, hooks,
                 audioVars, toolVars>>

Next ==
  \E c \in Conns :
    \/ open(c)
    \/ openVerified(c)
    \/ openSessionCreated(c)
    \/ openConnected(c)
    \/ openConnectFailed(c)
    \/ messageBinary(c)
    \/ \E kind \in MessageKinds : messageJson(c, kind)
    \/ onAudioDelta(c)
    \/ \E id \in CallIds, tool \in ToolNames : onToolCall(c, id, tool)
    \/ \E id \in CallIds, outcome \in Outcomes : toolComplete(c, id, outcome)
    \/ close(c)
    \/ error(c)
    \/ upstreamDisconnect(c)
    \/ cleanupFinish(c)

Spec == Init /\ [][Next]_vars

\* The Tool Gateway bounds its own latency: an execution that is outstanding
\* completes.
FairInit ==
  /\ limit = LiveAudio
  /\ budget = Cardinality(Conns) * (2 * MaxAudio + MaxCalls)
  /\ admitted = Accepted
  /\ InitState

FairSpec ==
  /\ FairInit
  /\ [][Next]_vars
  /\ \A c \in Conns, id \in CallIds :
       WF_vars(\E outcome \in Outcomes : toolComplete(c, id, outcome))

\* The Session Store answers: a cleanup run suspended at endSession resumes.
\* Nothing is assumed of the Tool Gateway: an execution may never complete.
CloseFairSpec ==
  /\ FairInit
  /\ [][Next]_vars
  /\ \A c \in Conns : WF_vars(cleanupFinish(c))

\* Several connections at once, each with its own run of open() and close().
MultiInit ==
  /\ limit = LiveAudio
  /\ budget = MultiTraffic
  /\ admitted = Conns
  /\ InitState

SpecMulti == MultiInit /\ [][Next]_vars

\* ------------------------------------------------------------------ claims

ReadyCount(c) ==
  Cardinality({i \in DOMAIN clientOut[c] : clientOut[c][i] = <<"ready">>})

\* C1: ready is sent to the client at most once per connection, and only when the
\* VoiceSession exists: the credential was accepted, and the connection is past
\* Authenticating and not Failed.
C1_ReadyOnceAfterSession ==
  \A c \in Conns :
    /\ ReadyCount(c) <= 1
    /\ ReadyCount(c) = 1 =>
         /\ session[c] # "none"
         /\ verify(cred[c]) # Null
         /\ phase[c] \in {"Bridging", "Closing", "Closed"}

C1_Witness ==
  \E c \in Conns : ReadyCount(c) = 1 /\ phase[c] = "Bridging" /\ session[c] = "active"

Responses(c, id) ==
  Cardinality({i \in DOMAIN upResp[c] : upResp[c][i][1] = id})

\* C2: a tool-call request taken up in Bridging gets exactly one response with its
\* callId (a result or an error payload), unless the upstream channel closes first,
\* and then none; no callId ever gets two responses, and nothing is sent upstream
\* once the channel is closed.
C2_OneResponsePerCall ==
  /\ [](\A c \in Conns, id \in CallIds :
          /\ Responses(c, id) <= 1
          /\ (reqTool[c][id] # Null /\ id \notin running[c] /\ upstream[c] = "connected")
               => Responses(c, id) = 1)
  /\ [][\A c \in Conns : upstream[c] # "connected" => upResp'[c] = upResp[c]]_vars
  /\ \A c \in Conns, id \in CallIds :
       (reqTool[c][id] # Null /\ reqPhase[c][id] = "Bridging")
         ~> (Responses(c, id) = 1 \/ upstream[c] = "disconnected")

C2_Witness ==
  \E c \in Conns, id \in CallIds :
    /\ reqPhase[c][id] = "Bridging"
    /\ id \in executed[c]
    /\ \E i \in DOMAIN upResp[c] : upResp[c][i][1] = id /\ upResp[c][i][2] = "error"

CleanedUp(c) ==
  /\ upstream[c] = "disconnected"
  /\ session[c] = "ended"
  /\ endedCount[c] = 1
  /\ c \notin connections
  /\ removals[c] = 1

Observable(c) ==
  <<upstream[c], session[c], endedCount[c], c \in connections, removals[c]>>

C4_TerminalCleanedOnce ==
  \A c \in Conns :
    (phase[c] \in Terminal /\ openPc[c] \in {"done", "aborted"} /\ cleaning[c] = 0) =>
      /\ session[c] # "none" => (session[c] = "ended" /\ endedCount[c] = 1)
      /\ c \notin connections
      /\ removals[c] <= 1

\* C5: a rejected credential takes the orchestrator from Authenticating to Failed
\* and closes the socket with the authentication-failure signal; a connection with
\* a rejected credential never has a VoiceSession, an upstream channel or a
\* registry entry.
C5_AuthRejected ==
  /\ [](\A c \in Conns :
          cred[c] = "invalid" =>
            /\ session[c] = "none"
            /\ upstream[c] = "none"
            /\ c \notin connections
            /\ phase[c] \in {"Connecting", "Authenticating", "Failed"})
  /\ [][\A c \in Conns :
          (phase[c] = "Authenticating" /\ openPc[c] = "verify" /\ openPc'[c] = "aborted")
            => /\ cred[c] = "invalid"
               /\ phase'[c] = "Failed"
               /\ closeSignal'[c] = "auth-failure"
               /\ ~wsOpen'[c]]_vars

C5_Witness ==
  \E c \in Conns :
    /\ cred[c] = "invalid"
    /\ phase[c] = "Failed"
    /\ closeSignal[c] = "auth-failure"
    /\ session[c] = "none"

IsAudio(m) ==
  m[1] = "audio"

AudioOut(c) ==
  LET a == SelectSeq(clientOut[c], IsAudio) IN [i \in 1..Len(a) |-> a[i][2]]

IsPrefix(s, t) ==
  Len(s) <= Len(t) /\ \A i \in 1..Len(s) : s[i] = t[i]

\* C6: the audio payloads sent to the client are the audio-delta events in their
\* order of arrival from upstream: always a prefix of what arrived, and while the
\* phase is Bridging all of it, also while tool calls are outstanding.
C6_AudioDeltaOrder ==
  \A c \in Conns :
    /\ IsPrefix(AudioOut(c), upArrived[c])
    /\ phase[c] = "Bridging" => AudioOut(c) = upArrived[c]

C6_Witness ==
  \E c \in Conns :
    phase[c] = "Bridging" /\ running[c] # {} /\ AudioOut(c) = <<1, 2>>

ExecRespIds(c) ==
  LET OfExecuted(r) == r[1] \in executed[c]
      a == SelectSeq(upResp[c], OfExecuted)
  IN [i \in 1..Len(a) |-> a[i][1]]

\* C7: the responses of executed tool calls go upstream in the order the
\* executions completed, whatever the order of the requests, and every response
\* carries the callId of the request its payload was computed for.
C7_CompletionOrder ==
  \A c \in Conns :
    /\ IsPrefix(ExecRespIds(c), completed[c])
    /\ upstream[c] = "connected" => ExecRespIds(c) = completed[c]
    /\ \A i \in DOMAIN upResp[c] : upResp[c][i][1] = upResp[c][i][3]

C7_Witness ==
  \E c \in Conns :
    /\ completed[c] = <<2, 1>>
    /\ ExecRespIds(c) = <<2, 1>>

\* C8: a tool-call request for a tool outside the registered set is answered in the
\* same step with an error response carrying its callId, and executeTool is never
\* invoked for it.
C8_UnregisteredTool ==
  /\ [](\A c \in Conns, id \in CallIds :
          reqTool[c][id] \notin RegisteredTools \cup {Null}
            => id \notin executed[c] /\ id \notin running[c])
  /\ [][\A c \in Conns, id \in CallIds :
          (reqTool[c][id] = Null /\ reqTool'[c][id] \notin RegisteredTools \cup {Null})
            => /\ upResp'[c] = Append(upResp[c], <<id, "error", id>>)
               /\ executed'[c] = executed[c]]_vars

C8_Witness ==
  \E c \in Conns, id \in CallIds :
    /\ reqTool[c][id] = "bogus"
    /\ \E i \in DOMAIN upResp[c] : upResp[c][i] = <<id, "error", id>>
    /\ executed[c] # {}

\* A step in which the executeTool of call id, outstanding when a terminal hook
\* ran, completes.
LateCompletion(c, id) ==
  id \in orphaned[c] /\ id \in running[c] /\ id \notin running'[c]

\* C9 (as claimed): when a tool call that was outstanding at the disconnect
\* completes, nothing is sent upstream or to the client, the call is not executed
\* again, and the VoiceSession is already ended at that moment.
C9_LateCompletionSessionEnded ==
  [][\A c \in Conns, id \in CallIds :
       LateCompletion(c, id) =>
         /\ upResp'[c] = upResp[c]
         /\ clientOut'[c] = clientOut[c]
         /\ executed'[c] = executed[c]
         /\ running'[c] \subseteq running[c]
         /\ session[c] = "ended"]_vars

\* C9 (amended): when a tool call that was outstanding at the disconnect completes,
\* nothing is sent upstream or to the client and the call is not executed again;
\* the VoiceSession is ended once the close path has run to its end (Closed), and a
\* completion during Closing may come before that.
C9_LateCompletionDiscarded ==
  /\ [][\A c \in Conns, id \in CallIds :
          LateCompletion(c, id) =>
            /\ upResp'[c] = upResp[c]
            /\ clientOut'[c] = clientOut[c]
            /\ executed'[c] = executed[c]
            /\ running'[c] \subseteq running[c]
            /\ phase[c] = "Closed" => session[c] = "ended"]_vars
  /\ [](\A c \in Conns : phase[c] = "Closed" => session[c] = "ended")

C9_Witness ==
  \E c \in Conns, id \in CallIds :
    /\ "close" \in hooks[c]
    /\ id \in orphaned[c]
    /\ id \notin running[c]
    /\ Responses(c, id) = 0
    /\ session[c] = "ended"

\* C10: Bridging is entered from Authenticating only, Authenticating from
\* Connecting only, and only with an accepted credential; the frames forwarded
\* upstream are the binary frames the client sent while in Bridging, one for one,
\* unmodified and in the order sent.
C10_BridgeForwardsAudio ==
  /\ [](\A c \in Conns : upAudio[c] = clientSent[c])
  /\ [][\A c \in Conns :
          /\ (phase'[c] = "Bridging" /\ phase[c] # "Bridging")
               => (phase[c] = "Authenticating" /\ verify(cred[c]) # Null)
          /\ (phase'[c] = "Authenticating" /\ phase[c] # "Authenticating")
               => phase[c] = "Connecting"]_vars

C10_Witness ==
  \E c \in Conns :
    phase[c] = "Bridging" /\ clientSent[c] = <<1, 2>> /\ upAudio[c] = <<1, 2>>

\* What a connection has sent upstream and holds besides its client socket.
Backend(c) ==
  <<phase[c], session[c], endedCount[c], upstream[c], c \in connections, removals[c],
    cleaning[c], upAudio[c], upControl[c], upResp[c], running[c], executed[c]>>

\* C11: in Bridging, a client message of an unrecognized kind and a malformed
\* control message each put one structured error event on the client socket and
\* leave the rest as it was: the phase stays Bridging, nothing goes upstream, the
\* VoiceSession and the registry entry are untouched.
C11_BadMessageRejected ==
  [][\A c \in Conns, kind \in MessageKinds \ ControlKinds :
       (phase[c] = "Bridging" /\ messageJson(c, kind)) =>
         /\ clientOut'[c] = Append(clientOut[c], <<"error", "bad-message">>)
         /\ Backend(c)' = Backend(c)
         /\ phase'[c] = "Bridging"]_vars

C11_Witness ==
  \E c \in Conns :
    /\ phase[c] = "Bridging"
    /\ \E i \in DOMAIN clientOut[c] : clientOut[c][i] = <<"error", "bad-message">>
    /\ session[c] = "active"
    /\ c \in connections

\* C12: when connecting the upstream channel fails, the connection is Failed, was
\* never bridged (no ready was sent, no entry stored), and the upstream channel is
\* given up rather than connected again; if the client socket was still open, the
\* last thing sent on it is a structured error event and the server closes it.
ConnectFailed(c) ==
  openPc[c] = "aborted" /\ session[c] # "none"

C12_ConnectFailureFatal ==
  /\ [](\A c \in Conns :
          ConnectFailed(c) =>
            /\ phase[c] = "Failed"
            /\ ReadyCount(c) = 0
            /\ c \notin connections
            /\ upstream[c] = "disconnected"
            /\ closeSignal[c] = "error" =>
                 /\ clientOut[c] # <<>>
                 /\ clientOut[c][Len(clientOut[c])] = <<"error", "upstream-connect">>)
  /\ [][\A c \in Conns :
          (wsOpen[c] /\ ~ConnectFailed(c) /\ ConnectFailed(c)') =>
            /\ clientOut'[c] = Append(clientOut[c], <<"error", "upstream-connect">>)
            /\ closeSignal'[c] = "error"
            /\ ~wsOpen'[c]]_vars

C12_Witness ==
  \E c \in Conns :
    /\ ConnectFailed(c)
    /\ closeSignal[c] = "error"
    /\ clientOut[c] = << <<"error", "upstream-connect">> >>
    /\ phase[c] = "Failed"

\* C13: a failed tool execution on a bridged connection is answered upstream with
\* an error response for its callId and nothing else happens: the phase stays
\* Bridging, the VoiceSession stays active, the channel and the socket stay as they
\* are, the client is sent nothing, and the other outstanding calls stay
\* outstanding.
C13_ToolFailureAbsorbed ==
  [][\A c \in Conns, id \in CallIds :
       (phase[c] = "Bridging" /\ toolComplete(c, id, "error")) =>
         /\ upResp'[c] = Append(upResp[c], <<id, "error", id>>)
         /\ phase'[c] = "Bridging"
         /\ session[c] = "active" /\ session'[c] = "active"
         /\ upstream'[c] = "connected"
         /\ c \in connections'
         /\ wsOpen'[c] = wsOpen[c] /\ closeSignal'[c] = closeSignal[c]
         /\ clientOut'[c] = clientOut[c]
         /\ running'[c] = running[c] \ {id}
         /\ orphaned'[c] = orphaned[c]]_vars

C13_Witness ==
  \E c \in Conns, id \in CallIds :
    /\ phase[c] = "Bridging"
    /\ \E i \in DOMAIN upResp[c] : upResp[c][i] = <<id, "error", id>>
    /\ id \in executed[c]
    /\ running[c] # {}
    /\ session[c] = "active"

\* C14: an upstream disconnect on a bridged connection moves it to Closing with the
\* upstream channel closed and a cleanup run started; a connection that took this
\* path is never Bridging again, and once it is Closed its VoiceSession is ended and
\* its registry entry is gone.
C14_UpstreamDisconnectCloses ==
  /\ [][\A c \in Conns :
          (phase[c] = "Bridging" /\ upstreamDisconnect(c)) =>
            /\ phase'[c] = "Closing"
            /\ upstream'[c] = "disconnected"
            /\ cleaning'[c] > 0]_vars
  /\ [](\A c \in Conns :
          ("upstream" \in hooks[c] /\ phase[c] # "Failed") =>
            /\ phase[c] \in {"Closing", "Closed"}
            /\ upstream[c] = "disconnected"
            /\ phase[c] = "Closing" => cleaning[c] > 0
            /\ phase[c] = "Closed" => (session[c] = "ended" /\ c \notin connections))

C14_Witness ==
  \E c \in Conns :
    /\ hooks[c] = {"upstream"}
    /\ phase[c] = "Closed"
    /\ session[c] = "ended"
    /\ c \notin connections
    /\ wsOpen[c]

\* C15: the phase of a connection changes only along Connecting -> Authenticating
\* -> Bridging -> Closing -> Closed or from a non-terminal phase to Failed.  Every
\* change moves strictly up in Rank, so a terminal phase is never left and a phase
\* that was left is never entered again.
Edges ==
  {<<"Connecting", "Authenticating">>, <<"Authenticating", "Bridging">>,
   <<"Bridging", "Closing">>, <<"Closing", "Closed">>}
    \cup {<<p, "Failed">> : p \in Phases \ Terminal}

Rank(p) ==
  CASE p = "Connecting" -> 0
    [] p = "Authenticating" -> 1
    [] p = "Bridging" -> 2
    [] p = "Closing" -> 3
    [] p \in Terminal -> 4

Sent(c) ==
  <<clientOut[c], upAudio[c], upControl[c], upResp[c]>>

C18_ClosedIsInert ==
  /\ [](\A c \in Conns :
          phase[c] = "Closed" => (c \notin connections /\ session[c] = "ended"))
  /\ [][\A c \in Conns :
          phase[c] = "Closed" =>
            /\ Sent(c)' = Sent(c)
            /\ session'[c] = session[c]
            /\ endedCount'[c] = endedCount[c]
            /\ c \notin connections'
            /\ phase'[c] = "Closed"]_vars

C18_Witness ==
  \E c \in Conns :
    /\ phase[c] = "Closed"
    /\ wsOpen[c]
    /\ nSent[c] = limit
    /\ clientSent[c] = <<>>
    /\ Sent(c) = << << <<"ready">> >>, <<>>, <<>>, <<>> >>
    /\ \E id \in orphaned[c] : id \notin running[c]

\* C19: with several connections opening and closing in any interleaving, the Map
\* holds an entry for a connection only if its cookie was verified and it is in no
\* terminal phase; and a step that inserts or removes the entry of one connection
\* leaves the entry, the connection state, the VoiceSession and the traffic of
\* every other connection as they were.
EntryJustified(c) ==
  c \in connections => (verify(cred[c]) # Null /\ phase[c] \notin Terminal)

Isolation ==
  \A c \in Conns :
    ((c \in connections) # (c \in connections')) =>
      \A d \in Conns \ {c} :
        /\ (d \in connections') = (d \in connections)
        /\ Backend(d)' = Backend(d)
        /\ Sent(d)' = Sent(d)
        /\ openPc'[d] = openPc[d] /\ wsOpen'[d] = wsOpen[d]

C19_RegistryUnderInterleaving ==
  /\ [](\A c \in Conns : EntryJustified(c))
  /\ [][Isolation]_vars

\* C20: the client disconnects while open() is suspended in connect(), with the
\* VoiceSession created and the connection state not yet stored.  When open() then
\* comes to its end, the VoiceSession is ended, the upstream channel is not open,
\* no ready has reached the client, and the Map holds no entry for the connection.
C20_DisconnectDuringOpen ==
  [][\A c \in Conns :
       (openPc[c] = "connect" /\ closeSignal[c] = "client" /\ session[c] = "active"
          /\ openPc'[c] # "connect") =>
         /\ session'[c] = "ended"
         /\ upstream'[c] # "connected"
         /\ ReadyCount(c)' = 0
         /\ c \notin connections']_vars

\* C21: a connection that is Closing reaches Closed, whatever the Tool Gateway
\* does: while it is Closing, the end of its cleanup run is enabled with tool
\* calls outstanding or not, and with the Session Store answering it is taken.
C21_ClosingReachesClosed ==
  /\ [](\A c \in Conns : phase[c] = "Closing" => ENABLED cleanupFinish(c))
  /\ \A c \in Conns : (phase[c] = "Closing") ~> (phase[c] = "Closed")

C21_Witness ==
  \E c \in Conns :
    /\ phase[c] = "Closed"
    /\ running[c] # {}
    /\ completed[c] = <<>>
    /\ session[c] = "ended"
    /\ c \notin connections

====
